---- MODULE Spec2Model ----
(***************************************************************************)
(* Model of the PureSort Slack bot: the webhook handler of the agent       *)
(* function (slack_agent/main.py) and the message listener of the Slack    *)
(* app (slack_app/listeners/events/new_message.py).                        *)
(*                                                                         *)
(* A process runs in exactly one hosting mode.  In mode "lambda" each      *)
(* step is one complete invocation of lambda_handler.  In mode "socket"    *)
(* every delivered event gets its own handling unit, which runs            *)
(* new_message_callback statement by statement; the units interleave at    *)
(* the calls that leave the process (ack, conversations_info, runs.wait,   *)
(* say).  Mode "deploy" is one run of scripts/deploy.py, one external      *)
(* command per step.  Mode "secrets" is a process whose threads share the  *)
(* SecretsManager of app/utils/secrets_manager.py; a lookup is interrupted *)
(* only by its call to the secret store.                                   *)
(***************************************************************************)
EXTENDS Integers, Sequences, FiniteSets, TLC

VARIABLES mode,          \* what this process is: "lambda", "socket", "deploy", "secrets"
          lam_count,     \* lambda: invocations of lambda_handler so far
          lam_pc,        \* lambda: "idle", or "returned" (response not yet handed over)
          lam_event,     \* lambda: the event of the latest invocation
          lam_outcome,   \* lambda: what slack_agent.invoke did in it (if called)
          lam_result,    \* lambda: response, agent calls and agent reply of it
          invoke_log,    \* lambda: every initial_state handed to slack_agent.invoke
          units,         \* socket: the handling units, each running new_message_callback
          tally,         \* socket: per event ts, what has happened for its deliveries
          deploy,        \* deploy: the run of scripts/deploy.py
          sm_cache,      \* secrets: SecretsManager._cache, per secret ARN
          sm_callers,    \* secrets: the threads calling the SecretsManager
          sm_returned    \* secrets: per ARN, the first non-empty value a
                         \*   cache-enabled lookup returned

vars == <<mode, lam_count, lam_pc, lam_event, lam_outcome, lam_result, invoke_log,
          units, tally, deploy, sm_cache, sm_callers, sm_returned>>

\* The variables of the tools beside the bot.
SecretsVars == <<sm_cache, sm_callers, sm_returned>>
ToolVars == <<deploy, SecretsVars>>

---------------------------------------------------------------------------
(* Bounds *)

MaxDeliveries == 2      \* events delivered to / invocations of one process
MaxMsgs == 2            \* messages in the output of one agent run

---------------------------------------------------------------------------
(* Values *)

NoVal == "<None>"       \* Python None: a key that is absent from a dict

Texts == {"hello", "bye"}
TextVals == {NoVal, ""} \cup Texts

BotIdVals == {NoVal, "", "B1"}

\* Channel ids and the name conversations_info resolves each to.
ChannelIds == {"C_TEST", "C_CASE"}
TsVals == {"171.1", "171.2"}

\* A Slack message event.  An absent event ({}) has every field absent.
SlackEvents == [text : TextVals, channel : ChannelIds, bot_id : BotIdVals, ts : TsVals]
NoEvent == [text |-> NoVal, channel |-> NoVal, bot_id |-> NoVal, ts |-> NoVal]

Errors == {"ConnectError: agent down", "run failed: hello"}

\* The i-th message of a run's output carries a content of its own.
ContentAt(i) == "content-" \o ToString(i)

Range(s) == {s[i] : i \in DOMAIN s}

\* Python truthiness of an optional string.
Truthy(v) == v # NoVal /\ v # ""

\* v in s, for strings: s contains v as a substring.
Contains(s, v) ==
    \E i \in 1..(Len(s) - Len(v) + 1) : SubSeq(s, i, i + Len(v) - 1) = v

---------------------------------------------------------------------------
(* slack_agent/main.py: the agent function *)

\* Messages of the agent graph's final state: objects with a type, and a
\* content attribute that may be missing.
LambdaMsgsAt(i) == [type : {"ai", "human"}, content : {ContentAt(i), NoVal}]
LambdaMsgSeqs ==
    UNION {{s \in [1..n -> UNION {LambdaMsgsAt(i) : i \in 1..n}] :
                \A i \in 1..n : s[i] \in LambdaMsgsAt(i)} : n \in 0..MaxMsgs}

\* What slack_agent.invoke can do: raise, return something that is no dict,
\* or return a state with (or without) messages.
InvokeOutcomes ==
    [kind : {"raise"}, err : Errors, messages : {<<>>}]
    \cup [kind : {"nondict"}, err : {NoVal}, messages : {<<>>}]
    \cup [kind : {"return"}, err : {NoVal}, messages : LambdaMsgSeqs]
NoOutcome == [kind |-> "none", err |-> NoVal, messages |-> <<>>]

SorryPrefix == "Sorry, I encountered an error processing your message: "
SuccessPhrase == "I processed your message successfully."
AttributeErrorText == "'NoneType' object has no attribute 'get'"

\* str(e) of the exception process_message_with_agent catches.
ErrorText(outcome) ==
    IF outcome.kind = "raise" THEN outcome.err ELSE AttributeErrorText

initial_state(message) ==
    [slack_message |-> message, messages |-> <<>>, message_classification |-> NoVal]

\* What a call gives back: a returned value, or a raised exception with
\* its str().
Ret(v) == [raised |-> FALSE, val |-> v, err |-> NoVal]
Raise(e) == [raised |-> TRUE, val |-> NoVal, err |-> e]

process_message_with_agent_uncaught(message, outcome) ==
    IF outcome.kind \in {"raise", "nondict"}
    THEN Raise(ErrorText(outcome))
    ELSE LET final_messages == outcome.messages IN
         IF final_messages # <<>> /\ final_messages[Len(final_messages)].content # NoVal
         THEN Ret(final_messages[Len(final_messages)].content)
         ELSE Ret(SuccessPhrase)

\* process_message_with_agent(message) when slack_agent.invoke behaves as
\* `outcome`.  Its try/except turns every exception into a returned string.
process_message_with_agent(message, outcome) ==
    IF outcome.kind \in {"raise", "nondict"}
    THEN Ret(SorryPrefix \o ErrorText(outcome))
    ELSE LET final_messages == outcome.messages IN
         IF final_messages # <<>> /\ final_messages[Len(final_messages)].content # NoVal
         THEN Ret(final_messages[Len(final_messages)].content)
         ELSE Ret(SuccessPhrase)

\* Response bodies: a raw string, or json.dumps of a one-key object.
RawBody(v) == [enc |-> "raw", key |-> "", val |-> v]
JsonBody(k, v) == [enc |-> "json", key |-> k, val |-> v]
Response(code, body) == [statusCode |-> code, body |-> body]

\* The result of one invocation: the response, the initial states handed to
\* slack_agent.invoke, and what process_message_with_agent gave back.
Result(resp, calls, reply) == [response |-> resp, calls |-> calls, reply |-> reply]
NoResult == Result(Response(0, RawBody("")), <<>>, NoVal)

\* Request bodies as the gateway delivers them.
BodyObjects ==
    [type : {NoVal, "url_verification", "event_callback", "app_rate_limited"},
     challenge : {NoVal, "abc123", "zzz"},
     event : SlackEvents \cup {NoEvent}]
EmptyObject == [type |-> NoVal, challenge |-> NoVal, event |-> NoEvent]
Bodies ==
    [form : {"absent", "null", "garbage", "array"}, obj : {EmptyObject}]
    \cup [form : {"object"}, obj : BodyObjects]

\* json.loads(event.get('body', '{}')) followed by the first body.get: the
\* parsed dict, or an exception.  An absent body defaults to '{}'; None and
\* non-JSON text make json.loads raise; a JSON array parses, and .get on it
\* raises.
json_loads(body) ==
    CASE body.form = "absent" -> Ret(EmptyObject)
      [] body.form = "object" -> Ret(body.obj)
      [] body.form = "null" -> Raise("TypeError")
      [] body.form = "garbage" -> Raise("JSONDecodeError")
      [] OTHER -> Raise("AttributeError")

BadRequest == Result(Response(400, JsonBody("error", "Bad request")), <<>>, NoVal)

url_verification_response_as_json(body) ==
    Response(200, JsonBody("challenge", IF body.challenge = NoVal THEN ""
                                        ELSE body.challenge))

\* Lines 40-43: the response to the URL verification challenge.
url_verification_response(body) ==
    Response(200, RawBody(IF body.challenge = NoVal THEN "" ELSE body.challenge))

is_event_callback_unless_verification(body) ==
    body.type # "url_verification"

\* Line 46: the test that guards the handling of Slack events.
is_event_callback(body) ==
    body.type = "event_callback"

handle_api_gateway_event(event, outcome) ==
    LET parsed == json_loads(event.body)
        body == parsed.val
        slack_event == body.event
        message == IF slack_event.text = NoVal THEN "" ELSE slack_event.text
        response == process_message_with_agent(message, outcome)
    IN  IF parsed.raised
        THEN BadRequest
        ELSE IF body.type = "url_verification"
        THEN Result(url_verification_response(body), <<>>, NoVal)
        ELSE IF is_event_callback(body) /\ Truthy(slack_event.bot_id)
        THEN Result(Response(200, JsonBody("status", "ignored_bot_message")), <<>>, NoVal)
        ELSE IF is_event_callback(body) /\ message # ""
        THEN IF response.raised
             THEN [BadRequest EXCEPT !.calls = <<initial_state(message)>>]
             ELSE Result(Response(200, JsonBody("status", "success")),
                         <<initial_state(message)>>, response.val)
        ELSE Result(Response(200, JsonBody("status", "success")), <<>>, NoVal)

\* str(e) of the exceptions a non-dict event raises.
ListAttributeErrorText == "'list' object has no attribute 'get'"
IntTypeErrorText == "argument of type 'int' is not iterable"

\* An event that is no dict makes event.get raise inside the try block;
\* the except clause of lines 93-98 answers with str(e).
handle_direct_invocation(event, outcome) ==
    LET message == IF event.message = NoVal THEN "" ELSE event.message
        response == process_message_with_agent(message, outcome)
    IN  IF event.shape # "dict"
        THEN Result(Response(500, JsonBody("error", ListAttributeErrorText)), <<>>, NoVal)
        ELSE IF message = ""
        THEN Result(Response(400, JsonBody("error", "Message is required")), <<>>, NoVal)
        ELSE IF response.raised
        THEN Result(Response(500, JsonBody("error", response.err)),
                    <<initial_state(message)>>, NoVal)
        ELSE Result(Response(200, JsonBody("response", response.val)),
                    <<initial_state(message)>>, response.val)

\* Events the function is invoked with: gateway events carry httpMethod; a
\* direct invocation passes any JSON value, a dict, a list or a number.
LambdaEvents ==
    [shape : {"dict"}, httpMethod : {"POST"}, body : Bodies, message : {NoVal}]
    \cup [shape : {"dict"}, httpMethod : {NoVal},
          body : {[form |-> "absent", obj |-> EmptyObject]}, message : TextVals]
    \cup [shape : {"list", "number"}, httpMethod : {NoVal},
          body : {[form |-> "absent", obj |-> EmptyObject]}, message : {NoVal}]
NoLambdaEvent ==
    [shape |-> "dict", httpMethod |-> NoVal,
     body |-> [form |-> "absent", obj |-> EmptyObject], message |-> NoVal]

InternalServerError ==
    Result(Response(500, JsonBody("error", "Internal server error")), <<>>, NoVal)

\* Line 17, 'httpMethod' in event: a membership test on a dict or a list, an
\* exception on a number.
has_httpMethod(event) ==
    IF event.shape = "number" THEN Raise(IntTypeErrorText)
    ELSE Ret(event.httpMethod # NoVal)

\* Both handlers catch every Exception themselves, so the except clause of
\* lines 23-28 catches only what line 17 raises.
lambda_handler(event, outcome) ==
    IF has_httpMethod(event).raised
    THEN InternalServerError
    ELSE IF has_httpMethod(event).val
    THEN handle_api_gateway_event(event, outcome)
    ELSE handle_direct_invocation(event, outcome)

\* Whether handling `event` reaches slack_agent.invoke.
CallsAgent(event) == lambda_handler(event, NoOutcome).calls # <<>>

\* One invocation of the function, up to its return statement.
\* slack_agent.invoke is outside this repository: when it is called, its
\* behaviour is chosen freely.
LambdaInvoke ==
    /\ mode = "lambda"
    /\ lam_count < MaxDeliveries
    /\ lam_pc = "idle"
    /\ lam_pc' = "returned"
    /\ \E event \in LambdaEvents :
         \E outcome \in IF CallsAgent(event) THEN InvokeOutcomes ELSE {NoOutcome} :
            /\ lam_event' = event
            /\ lam_outcome' = outcome
            /\ lam_result' = lambda_handler(event, outcome)
            /\ invoke_log' = invoke_log \o lambda_handler(event, outcome).calls
    /\ lam_count' = lam_count + 1
    /\ UNCHANGED <<mode, units, tally, ToolVars>>

\* The runtime hands the response to the caller; the invocation's locals
\* are gone and the container waits for the next event.
LambdaRespond ==
    /\ mode = "lambda"
    /\ lam_pc = "returned"
    /\ lam_pc' = "idle"
    /\ lam_event' = NoLambdaEvent
    /\ lam_outcome' = NoOutcome
    /\ lam_result' = NoResult
    /\ UNCHANGED <<mode, lam_count, invoke_log, units, tally, ToolVars>>

---------------------------------------------------------------------------

(* slack_app/listeners/events/new_message.py: the message listener *)

AGENT_URL == "http://localhost:2024/"
AllowedChannel == "all-ai-tools-testing"

\* The workspace: the normalized name conversations_info gives for a channel.
ChannelName(channel) ==
    CASE channel = "C_TEST" -> "all-ai-tools-testing"
      [] channel = "C_CASE" -> "All-AI-Tools-Testing"
      [] OTHER -> "random"

\* Messages of a run's output as the agent server returns them: dicts with
\* a type and a content.
SocketMsgsAt(i) == [type : {"ai", "human"}, content : {ContentAt(i)}]
SocketMsgSeqs ==
    UNION {{s \in [1..n -> UNION {SocketMsgsAt(i) : i \in 1..n}] :
                \A i \in 1..n : s[i] \in SocketMsgsAt(i)} : n \in 0..MaxMsgs}

\* What client.runs.wait can do: raise (transport or upstream error), return
\* a response without a "messages" key, or return the run's output.
RunOutcomes ==
    [kind : {"raise"}, err : Errors, messages : {<<>>}]
    \cup [kind : {"nomessages"}, err : {NoVal}, messages : {<<>>}]
    \cup [kind : {"return"}, err : {NoVal}, messages : SocketMsgSeqs]

\* The request create_agent_run(message) submits.
create_agent_run(message) ==
    [url |-> AGENT_URL, thread_id |-> NoVal, assistant_id |-> "slack_agent",
     input |-> [slack_message |-> message]]
NoRequest ==
    [url |-> NoVal, thread_id |-> NoVal, assistant_id |-> NoVal,
     input |-> [slack_message |-> NoVal]]

PassesFilter_channel_only(channel_name, message) ==
    ~(channel_name # AllowedChannel)

\* Lines 39-44: TRUE when the event goes on to the agent.
PassesFilter(channel_name, message) ==
    /\ ~(channel_name # AllowedChannel)
    /\ ~(~Truthy(message))

\* Line 50: [msg for msg in agent_run["messages"] if msg["type"] == "ai"]
IsAi(msg) == msg.type = "ai"
AiMessages(messages) == SelectSeq(messages, IsAi)

\* Line 51: the arguments of say().  The f-string leaves a str content as it is.
SayArgs(event, last_ai_message) ==
    [thread_ts |-> event.ts, text |-> last_ai_message.content]
NoSay == [thread_ts |-> NoVal, text |-> NoVal]

\* Handling units.  A unit runs one new_message_callback; trace lists the
\* calls it has made that leave the process, in order.
Units == {1, 2}
IdleUnit ==
    [pc |-> "idle", event |-> NoEvent, trace |-> <<>>, request |-> NoRequest,
     agent_run |-> <<>>, run_ok |-> FALSE, exc |-> NoVal, said |-> NoSay]

NoTally == [delivered |-> 0, called |-> 0, succeeded |-> 0, replied |-> 0]

RECURSIVE SumDelivered(_)
SumDelivered(S) ==
    IF S = {} THEN 0
    ELSE LET t == CHOOSE x \in S : TRUE IN tally[t].delivered + SumDelivered(S \ {t})
Delivered == SumDelivered(TsVals)

LambdaVars == <<mode, lam_count, lam_pc, lam_event, lam_outcome, lam_result, invoke_log>>

Acked_deferred(event, ack_ok) ==
    [IdleUnit EXCEPT !.event = event,
                     !.trace = <<>>,
                     !.pc = IF ack_ok THEN "lookup" ELSE "raised",
                     !.exc = IF ack_ok THEN NoVal ELSE "ack failed"]

\* A unit after ack(): line 31.
Acked(event, ack_ok) ==
    [IdleUnit EXCEPT !.event = event,
                     !.trace = <<"ack">>,
                     !.pc = IF ack_ok THEN "lookup" ELSE "raised",
                     !.exc = IF ack_ok THEN NoVal ELSE "ack failed"]

\* An event arrives, the first free unit takes it and the listener starts:
\* line 31, ack().
Deliver(u) ==
    /\ mode = "socket"
    /\ units[u].pc = "idle"
    /\ \A v \in Units : v < u => units[v].pc # "idle"
    /\ Delivered < MaxDeliveries
    /\ \E event \in SlackEvents, ack_ok \in BOOLEAN :
         /\ units' = [units EXCEPT ![u] = Acked(event, ack_ok)]
         /\ tally' = [tally EXCEPT ![event.ts].delivered = @ + 1]
    /\ UNCHANGED <<LambdaVars, ToolVars>>

\* A unit after lines 32-48, up to the blocking call in create_agent_run:
\* the channel lookup, the two filters and the submission of the run.
\* lookup_ok = FALSE: conversations_info raised.
Looked(unit, lookup_ok) ==
    LET message == unit.event.text
        channel_name == ChannelName(unit.event.channel)
        looked == [unit EXCEPT !.trace = @ \o <<"conversations_info">>]
    IN  IF ~lookup_ok
        THEN [looked EXCEPT !.pc = "raised", !.exc = "conversations_info failed"]
        ELSE IF ~PassesFilter(channel_name, message)
        THEN [looked EXCEPT !.pc = "returned"]
        ELSE [looked EXCEPT !.pc = "waiting",
                            !.trace = @ \o <<"runs.wait">>,
                            !.request = create_agent_run(message)]

ConversationsInfo(u) ==
    /\ mode = "socket"
    /\ units[u].pc = "lookup"
    /\ \E lookup_ok \in BOOLEAN :
         /\ units' = [units EXCEPT ![u] = Looked(units[u], lookup_ok)]
         /\ tally' = IF Looked(units[u], lookup_ok).pc = "waiting"
                     THEN [tally EXCEPT ![units[u].event.ts].called = @ + 1]
                     ELSE tally
    /\ UNCHANGED <<LambdaVars, ToolVars>>

\* A unit after client.runs.wait has ended as `outcome`: lines 24 and 48-50.
Returned(unit, outcome) ==
    IF outcome.kind = "raise"
    THEN [unit EXCEPT !.pc = "raised", !.exc = outcome.err]
    ELSE IF outcome.kind = "nomessages"
    THEN [unit EXCEPT !.pc = "raised", !.exc = "KeyError: 'messages'"]
    ELSE IF AiMessages(outcome.messages) = <<>>
    THEN [unit EXCEPT !.pc = "raised", !.exc = "IndexError: list index out of range",
                      !.agent_run = outcome.messages, !.run_ok = TRUE]
    ELSE [unit EXCEPT !.pc = "say", !.agent_run = outcome.messages, !.run_ok = TRUE]

RunReturn(u) ==
    /\ mode = "socket"
    /\ units[u].pc = "waiting"
    /\ \E outcome \in RunOutcomes :
         /\ units' = [units EXCEPT ![u] = Returned(units[u], outcome)]
         /\ tally' = IF outcome.kind = "return"
                     THEN [tally EXCEPT ![units[u].event.ts].succeeded = @ + 1]
                     ELSE tally
    /\ UNCHANGED <<LambdaVars, ToolVars>>

\* A unit after line 51, say(); say_ok = FALSE: the post raised.
Spoken(unit, say_ok) ==
    LET ai == AiMessages(unit.agent_run)
        last_ai_message == ai[Len(ai)]
    IN  [unit EXCEPT !.trace = @ \o <<"say">>,
                     !.said = SayArgs(unit.event, last_ai_message),
                     !.pc = IF say_ok THEN "returned" ELSE "raised",
                     !.exc = IF say_ok THEN NoVal ELSE "say failed"]

Say(u) ==
    /\ mode = "socket"
    /\ units[u].pc = "say"
    /\ \E say_ok \in BOOLEAN :
         units' = [units EXCEPT ![u] = Spoken(units[u], say_ok)]
    /\ tally' = [tally EXCEPT ![units[u].event.ts].replied = @ + 1]
    /\ UNCHANGED <<LambdaVars, ToolVars>>

\* The callback has returned or raised (the framework logs the exception):
\* the handling unit ends and its locals are gone.
Exit(u) ==
    /\ mode = "socket"
    /\ units[u].pc \in {"returned", "raised"}
    /\ units' = [units EXCEPT ![u] = IdleUnit]
    /\ UNCHANGED tally
    /\ UNCHANGED <<LambdaVars, ToolVars>>

---------------------------------------------------------------------------

---------------------------------------------------------------------------
(* scripts/deploy.py: the deployment script *)

\* Return codes of an external command.
ReturnCodes == {0, 1, 2}

\* The steps of the script: external commands through run_command, the
\* docker login through subprocess.run, and the reads of the stack outputs
\* that can raise.
Run(cmd) == [op |-> "run_command", arg |-> cmd]
Read(key) == [op |-> "read", arg |-> key]
ParseStep == [op |-> "json.loads", arg |-> "stdout"]
SplitStep == [op |-> "split", arg |-> "ecr_uri"]
LoginStep == [op |-> "subprocess.run", arg |-> "docker login"]

OutputKeys == {"ECRRepositoryURI", "LambdaFunctionName", "ApiGatewayUrl", "S3BucketName"}
EcrUris == {"123.dkr.ecr.us-east-1.amazonaws.com/slack-bot", "localhost/slack-bot"}

\* What describe-stacks prints: no JSON, or outputs with some of the keys.
StackOutputs ==
    [parsed : {FALSE}, keys : {{}}, uri : {NoVal}]
    \cup [parsed : {TRUE}, keys : SUBSET OutputKeys, uri : EcrUris]
NoOutputs == [parsed |-> FALSE, keys |-> {}, uri |-> NoVal]

\* Number of '.' in s.
DotCount(s) == Cardinality({i \in 1..Len(s) : SubSeq(s, i, i) = "."})

\* Line 43: ecr_uri.split('.')[3].
region(ecr_uri) ==
    IF DotCount(ecr_uri) >= 3 THEN Ret("region") ELSE Raise("IndexError")

get_stack_outputs == <<Run("aws cloudformation describe-stacks"), ParseStep>>
ecr_login == <<SplitStep, Run("aws ecr get-login-password"), LoginStep>>
build_and_push_image ==
    <<Run("docker build"), Run("docker tag image_tag"), Run("docker tag latest"),
      Run("docker push image_tag"), Run("docker push latest")>>
deploy_infrastructure == <<Run("cdk deploy")>>
update_lambda_function ==
    <<Run("aws lambda update-function-code"), Run("aws lambda wait function-updated")>>
print_deployment_summary ==
    <<Read("ECRRepositoryURI"), Read("LambdaFunctionName"), Read("ApiGatewayUrl"),
      Read("S3BucketName")>>

full_deploy ==
    deploy_infrastructure \o get_stack_outputs \o <<Read("ECRRepositoryURI")>>
      \o ecr_login \o build_and_push_image \o <<Read("LambdaFunctionName")>>
      \o update_lambda_function \o print_deployment_summary

code_only_deploy ==
    get_stack_outputs \o <<Read("ECRRepositoryURI"), Read("LambdaFunctionName")>>
      \o ecr_login \o build_and_push_image \o update_lambda_function

\* Line 193: the function main() calls.
Program(code_only) == IF code_only THEN code_only_deploy ELSE full_deploy

\* What a step does to the process: go on, or end it with an exit status.
GoOn == [exit |-> FALSE, code |-> 0]
SysExit(code) == [exit |-> TRUE, code |-> code]

run_command_unchecked(returncode) ==
    GoOn

\* Lines 24-27: a non-zero return code ends the process with status 1.
run_command(returncode) ==
    IF returncode # 0 THEN SysExit(1) ELSE GoOn

\* Lines 56-58: the same for the docker login.
docker_login(returncode) ==
    IF returncode # 0 THEN SysExit(1) ELSE GoOn

\* An exception nothing catches ends the interpreter with status 1.
Uncaught(r) == IF r.raised THEN SysExit(1) ELSE GoOn

IdleDeploy ==
    [state |-> "idle", code_only |-> FALSE, pc |-> 1, log |-> <<>>,
     outputs |-> NoOutputs, code |-> 0]

DeployStep == Program(deploy.code_only)[deploy.pc]
DeployAt(op) ==
    /\ mode = "deploy"
    /\ deploy.state = "running"
    /\ deploy.pc <= Len(Program(deploy.code_only))
    /\ DeployStep.op = op

\* The process after a step with effect r.
Stepped(d, r) ==
    [d EXCEPT !.pc = @ + 1,
              !.state = IF r.exit THEN "exited" ELSE "running",
              !.code = r.code]

\* Lines 182-196: main() picks the deployment.
DeployMain ==
    /\ mode = "deploy"
    /\ deploy.state = "idle"
    /\ \E code_only \in BOOLEAN :
         deploy' = [deploy EXCEPT !.state = "running", !.code_only = code_only]
    /\ UNCHANGED <<LambdaVars, units, tally, SecretsVars>>

DeployRunCommand ==
    /\ DeployAt("run_command")
    /\ \E rc \in ReturnCodes :
         deploy' = Stepped([deploy EXCEPT !.log = Append(@, [cmd |-> DeployStep.arg,
                                                             rc |-> rc])],
                           run_command(rc))
    /\ UNCHANGED <<LambdaVars, units, tally, SecretsVars>>

DeployDockerLogin ==
    /\ DeployAt("subprocess.run")
    /\ \E rc \in ReturnCodes :
         deploy' = Stepped([deploy EXCEPT !.log = Append(@, [cmd |-> DeployStep.arg,
                                                             rc |-> rc])],
                           docker_login(rc))
    /\ UNCHANGED <<LambdaVars, units, tally, SecretsVars>>

\* Lines 37-38: the outputs are what the command printed.
DeployParse ==
    /\ DeployAt("json.loads")
    /\ \E out \in StackOutputs :
         deploy' = Stepped([deploy EXCEPT !.outputs = out],
                           Uncaught(IF out.parsed THEN Ret(NoVal)
                                    ELSE Raise("JSONDecodeError")))
    /\ UNCHANGED <<LambdaVars, units, tally, SecretsVars>>

\* outputs[key]
DeployRead ==
    /\ DeployAt("read")
    /\ deploy' = Stepped(deploy, Uncaught(IF DeployStep.arg \in deploy.outputs.keys
                                          THEN Ret(NoVal) ELSE Raise("KeyError")))
    /\ UNCHANGED <<LambdaVars, units, tally, SecretsVars>>

DeploySplit ==
    /\ DeployAt("split")
    /\ deploy' = Stepped(deploy, Uncaught(region(deploy.outputs.uri)))
    /\ UNCHANGED <<LambdaVars, units, tally, SecretsVars>>

\* main() returns: the interpreter exits with status 0.
DeployDone ==
    /\ mode = "deploy"
    /\ deploy.state = "running"
    /\ deploy.pc > Len(Program(deploy.code_only))
    /\ deploy' = [deploy EXCEPT !.state = "exited", !.code = 0]
    /\ UNCHANGED <<LambdaVars, units, tally, SecretsVars>>

---------------------------------------------------------------------------
(* app/utils/secrets_manager.py: the secret provider *)

Keys == {"arn:a", "arn:b"}
SecretValues == {"s1", "s2"}
Getters == {"get_slack_bot_token", "get_slack_signing_secret", "get_anthropic_api_key"}

\* What os.environ.get gives for a getter's ARN variable.
EnvValues == {NoVal, ""} \cup Keys

ClientErrorCodes ==
    {"DecryptionFailureException", "InternalServiceErrorException",
     "InvalidParameterException", "InvalidRequestException",
     "ResourceNotFoundException", "ThrottlingException"}

\* The SecretString the store holds: a JSON object with a value (possibly
\* empty), one without 'value', text that is no JSON, or a JSON array.
SecretStrings ==
    [form : {"value"}, value : SecretValues \cup {""}]
    \cup [form : {"no value", "not json", "array"}, value : {NoVal}]
NoSecret == [form |-> "none", value |-> NoVal]

\* What one get_secret_value call on the store does.  The store answers
\* with what it holds at that moment, which may differ from call to call.
StoreReplies ==
    [kind : {"SecretString"}, code : {NoVal}, secret : SecretStrings]
    \cup [kind : {"ClientError"}, code : ClientErrorCodes, secret : {NoSecret}]
    \cup [kind : {"Exception"}, code : {NoVal}, secret : {NoSecret}]
NoReply == [kind |-> "none", code |-> NoVal, secret |-> NoSecret]

\* Line 29: the lookup is answered from the cache.
cache_hit(cache, cached) == cache /\ cached # NoVal

\* Lines 34-38: the value of the envelope, or the exception raised on the way.
secret_value(reply) ==
    CASE reply.kind = "ClientError" -> Raise(reply.code)
      [] reply.kind = "Exception" -> Raise("Exception")
      [] reply.secret.form = "value" -> Ret(reply.secret.value)
      [] reply.secret.form = "no value" -> Ret(NoVal)
      [] reply.secret.form = "not json" -> Raise("JSONDecodeError")
      [] OTHER -> Raise("AttributeError")

should_cache_unless_disabled(secret_value_, cache) ==
    cache

\* Line 40: the value goes into the cache.
should_cache(secret_value_, cache) ==
    Truthy(secret_value_) /\ cache

except_clauses_reraise(err) ==
    Raise(err)

\* Lines 46-66: every except clause logs and returns None.
except_clauses(err) ==
    Ret(NoVal)

\* Lines 33-66 for a store call answered by `reply`: what is returned (or
\* raised) and whether the cache is written.
fetch(reply, cache) ==
    LET r == secret_value(reply) IN
    IF r.raised
    THEN [out |-> except_clauses(r.err), write |-> FALSE]
    ELSE [out |-> r, write |-> should_cache(r.val, cache)]

Callers == {1, 2}
IdleCaller ==
    [pc |-> "idle", via |-> NoVal, key |-> NoVal, cache |-> FALSE, later |-> FALSE,
     reply |-> NoReply, result |-> NoVal, raised |-> FALSE, calls |-> 0,
     wrote |-> FALSE]

\* A returned call is observed before any thread takes its next step.
SmQuiet == \A c \in Callers : sm_callers[c].pc # "returned"

\* Lines 28-31: get_secret_value(secret_arn, cache) up to the store call.
Entered(via, secret_arn, cache) ==
    LET frame == [IdleCaller EXCEPT !.via = via, !.key = secret_arn, !.cache = cache,
                                    !.later = (cache /\ sm_returned[secret_arn] # NoVal)]
    IN  IF cache_hit(cache, sm_cache[secret_arn])
        THEN [frame EXCEPT !.pc = "returned", !.result = sm_cache[secret_arn]]
        ELSE [frame EXCEPT !.pc = "fetch"]

SmGetSecretValue(c) ==
    /\ mode = "secrets"
    /\ SmQuiet
    /\ sm_callers[c].pc = "idle"
    /\ \E secret_arn \in Keys, cache \in BOOLEAN :
         sm_callers' = [sm_callers EXCEPT
                           ![c] = Entered("get_secret_value", secret_arn, cache)]
    /\ UNCHANGED <<sm_cache, sm_returned>>
    /\ UNCHANGED <<LambdaVars, units, tally, deploy>>

\* Lines 68-90: the named getters.
SmGetter(c) ==
    /\ mode = "secrets"
    /\ SmQuiet
    /\ sm_callers[c].pc = "idle"
    /\ \E getter \in Getters, secret_arn \in EnvValues :
         sm_callers' = [sm_callers EXCEPT
                           ![c] = IF ~Truthy(secret_arn)
                                  THEN [IdleCaller EXCEPT !.pc = "returned", !.via = getter,
                                                          !.key = secret_arn]
                                  ELSE Entered(getter, secret_arn, TRUE)]
    /\ UNCHANGED <<sm_cache, sm_returned>>
    /\ UNCHANGED <<LambdaVars, units, tally, deploy>>

\* Lines 33-66: the store call comes back and the lookup finishes.
SmStoreReply(c) ==
    /\ mode = "secrets"
    /\ SmQuiet
    /\ sm_callers[c].pc = "fetch"
    /\ \E reply \in StoreReplies :
         LET me == sm_callers[c]
             f == fetch(reply, me.cache)
         IN  /\ sm_callers' = [sm_callers EXCEPT
                                  ![c] = [me EXCEPT !.pc = "returned", !.reply = reply,
                                                    !.result = f.out.val,
                                                    !.raised = f.out.raised,
                                                    !.calls = 1, !.wrote = f.write]]
             /\ sm_cache' = IF f.write THEN [sm_cache EXCEPT ![me.key] = f.out.val]
                            ELSE sm_cache
             /\ sm_returned' =
                  IF me.cache /\ ~f.out.raised /\ Truthy(f.out.val)
                        /\ sm_returned[me.key] = NoVal
                  THEN [sm_returned EXCEPT ![me.key] = f.out.val]
                  ELSE sm_returned
    /\ UNCHANGED <<LambdaVars, units, tally, deploy>>

SmReturn(c) ==
    /\ mode = "secrets"
    /\ sm_callers[c].pc = "returned"
    /\ sm_callers' = [sm_callers EXCEPT ![c] = IdleCaller]
    /\ UNCHANGED <<sm_cache, sm_returned>>
    /\ UNCHANGED <<LambdaVars, units, tally, deploy>>

Init ==
    /\ mode \in {"lambda", "socket", "deploy", "secrets"}
    /\ lam_count = 0
    /\ lam_pc = "idle"
    /\ lam_event = NoLambdaEvent
    /\ lam_outcome = NoOutcome
    /\ lam_result = NoResult
    /\ invoke_log = <<>>
    /\ units = [u \in Units |-> IdleUnit]
    /\ tally = [t \in TsVals |-> NoTally]
    /\ deploy = IdleDeploy
    /\ sm_cache = [k \in Keys |-> NoVal]
    /\ sm_callers = [c \in Callers |-> IdleCaller]
    /\ sm_returned = [k \in Keys |-> NoVal]

Next ==
    \/ LambdaInvoke
    \/ LambdaRespond
    \/ \E u \in Units : Deliver(u)
    \/ \E u \in Units : ConversationsInfo(u)
    \/ \E u \in Units : RunReturn(u)
    \/ \E u \in Units : Say(u)
    \/ \E u \in Units : Exit(u)
    \/ DeployMain
    \/ DeployRunCommand
    \/ DeployDockerLogin
    \/ DeployParse
    \/ DeployRead
    \/ DeploySplit
    \/ DeployDone
    \/ \E c \in Callers : SmGetSecretValue(c)
    \/ \E c \in Callers : SmGetter(c)
    \/ \E c \in Callers : SmStoreReply(c)
    \/ \E c \in Callers : SmReturn(c)

Spec == Init /\ [][Next]_vars

---------------------------------------------------------------------------
(* Properties *)

Count(seq, x) == Cardinality({i \in DOMAIN seq : seq[i] = x})
Called(unit, name) == name \in Range(unit.trace)
Finished(unit) == unit.pc \in {"returned", "raised"}

\* The latest invocation was a gateway event whose body parsed to a dict,
\* and lambda_handler has returned.
GatewayReturned ==
    /\ mode = "lambda"
    /\ lam_pc = "returned"
    /\ lam_event.httpMethod # NoVal
    /\ ~json_loads(lam_event.body).raised
LamBody == json_loads(lam_event.body).val
OkSuccess == Response(200, JsonBody("status", "success"))

\* A message event the dispatcher is to accept: a non-bot author, the
\* allow-listed channel, a non-empty text.
Accepted(event) ==
    /\ ~Truthy(event.bot_id)
    /\ ChannelName(event.channel) = AllowedChannel
    /\ Truthy(event.text)

\* The reply a successful run is to give: the content of the last message
\* tagged "ai", or the fixed success phrase when there is none.
ExpectedReply(messages) ==
    IF AiMessages(messages) = <<>> THEN SuccessPhrase
    ELSE AiMessages(messages)[Len(AiMessages(messages))].content

\* C1: a message event that carries a bot_id never causes an agent
\* invocation: the webhook handler answers 200 'ignored_bot_message' without
\* calling the agent, and the listener neither starts a run nor replies.
C1_BotEventNeverInvokes ==
    /\ (GatewayReturned /\ LamBody.type = "event_callback"
            /\ Truthy(LamBody.event.bot_id))
         => /\ lam_result.response = Response(200, JsonBody("status", "ignored_bot_message"))
            /\ lam_result.calls = <<>>
    /\ \A u \in Units :
         (units[u].pc # "idle" /\ Truthy(units[u].event.bot_id))
            => ~Called(units[u], "runs.wait") /\ ~Called(units[u], "say")

\* C2: an event from a channel whose resolved name is not the allow-listed
\* name produces no agent invocation and no reply, on either entry path.
C2_OtherChannelNeverInvokes ==
    /\ \A u \in Units :
         (units[u].pc # "idle" /\ ChannelName(units[u].event.channel) # AllowedChannel)
            => ~Called(units[u], "runs.wait") /\ ~Called(units[u], "say")
    /\ (GatewayReturned /\ LamBody.type = "event_callback"
            /\ ChannelName(LamBody.event.channel) # AllowedChannel)
         => lam_result.calls = <<>>

\* C3: a url_verification body is answered with statusCode 200 and the
\* challenge itself as the body (raw, not JSON), whatever else the body
\* holds; the agent is not invoked and nothing is handed to it.
C3_UrlVerificationEchoesChallenge ==
    (GatewayReturned /\ LamBody.type = "url_verification")
       => /\ lam_result.response.statusCode = 200
          /\ lam_result.response.body.enc = "raw"
          /\ lam_result.response.body.val =
                (IF LamBody.challenge = NoVal THEN "" ELSE LamBody.challenge)
          /\ lam_result.calls = <<>>
          /\ lam_result.reply = NoVal
          /\ lam_outcome = NoOutcome

C3_Witness ==
    /\ GatewayReturned
    /\ LamBody.type = "url_verification"
    /\ LamBody.challenge = "abc123"
    /\ LamBody.event.text = "hello"
    /\ LamBody.event.bot_id = NoVal
    /\ lam_result.response.body.val = "abc123"

\* C4: for an accepted event the listener starts exactly one run whose input
\* is the event's text, and when the run succeeds it posts exactly one
\* reply, with the content of the last ai message and thread_ts = the
\* event's ts; no reply is posted before the run has returned.
C4_AcceptedEventOneRunOneReply ==
    \A u \in Units :
       LET unit == units[u] IN
       (Accepted(unit.event) /\ unit.pc \in {"waiting", "say", "returned", "raised"}
            /\ unit.exc \notin {"ack failed", "conversations_info failed"})
         => /\ Count(unit.trace, "runs.wait") = 1
            /\ unit.request.input.slack_message = unit.event.text
            /\ Called(unit, "say") => unit.run_ok
            /\ (Finished(unit) /\ unit.run_ok)
                 => /\ Count(unit.trace, "say") = 1
                    /\ unit.said.thread_ts = unit.event.ts
                    /\ unit.said.text = ExpectedReply(unit.agent_run)

\* C5: when the agent invocation fails, the text handed to the user is a
\* fixed apology that never contains the error text: what
\* process_message_with_agent returns, and the reply the listener posts.
C5_AgentFailureGivesFixedApology ==
    /\ (mode = "lambda" /\ lam_pc = "returned" /\ lam_result.calls # <<>>
            /\ lam_outcome.kind \in {"raise", "nondict"})
         => /\ lam_result.reply # NoVal
            /\ ~Contains(lam_result.reply, ErrorText(lam_outcome))
    /\ \A u \in Units :
         (units[u].pc = "raised" /\ Called(units[u], "runs.wait") /\ ~units[u].run_ok)
            => /\ Count(units[u].trace, "say") = 1
               /\ ~Contains(units[u].said.text, units[u].exc)

\* C6: once the webhook handler has accepted an event_callback with text
\* from a non-bot author, no failure of slack_agent.invoke changes the
\* response: it is statusCode 200 with status 'success'.
C6_AgentFailureStillOk ==
    (GatewayReturned /\ LamBody.type = "event_callback"
        /\ ~Truthy(LamBody.event.bot_id) /\ Truthy(LamBody.event.text)
        /\ lam_outcome.kind \in {"raise", "nondict"})
       => /\ lam_result.response = OkSuccess
          /\ lam_result.response.statusCode \notin 400..599

C6_Witness ==
    /\ GatewayReturned
    /\ LamBody.type = "event_callback"
    /\ LamBody.event.text = "hello"
    /\ LamBody.event.bot_id = ""
    /\ lam_outcome.kind = "raise"
    /\ lam_result.calls = <<initial_state("hello")>>
    /\ lam_result.response = OkSuccess

\* C7: nothing is deduplicated and no state is carried from one event to the
\* next: every accepted delivery starts its own run on a fresh thread
\* (thread_id None, no earlier messages), and once all handling has ended
\* every ts has as many replies as it has runs that succeeded.
C7_NoDedupEveryDeliveryRunsAndReplies ==
    /\ \A u \in Units :
         Called(units[u], "runs.wait")
            => /\ units[u].request.thread_id = NoVal
               /\ units[u].request.input.slack_message = units[u].event.text
    /\ \A i \in DOMAIN invoke_log : invoke_log[i].messages = <<>>
    /\ \A t \in TsVals : tally[t].called <= tally[t].delivered
    /\ (\A u \in Units : units[u].pc = "idle")
         => \A t \in TsVals : tally[t].replied = tally[t].succeeded

\* C8: the listener acknowledges before it processes: in every execution
\* ack() is the first call and is made exactly once, so it precedes the
\* channel lookup, the run and the reply, also when the event is then
\* filtered out or the run or the reply fails.
C8_AckFirstExactlyOnce ==
    \A u \in Units :
       units[u].pc # "idle"
         => /\ units[u].trace # <<>>
            /\ units[u].trace[1] = "ack"
            /\ Count(units[u].trace, "ack") = 1

C8_Witness ==
    \E u \in Units :
       /\ units[u].pc = "raised"
       /\ units[u].exc = "say failed"
       /\ units[u].trace = <<"ack", "conversations_info", "runs.wait", "say">>

\* C9: on a successful run the reply is the content of the last message
\* tagged 'ai', also when messages of other types follow it, and the fixed
\* success phrase when no message is tagged 'ai'; on both entry paths.
C9_ReplyIsLastAiMessage ==
    /\ (mode = "lambda" /\ lam_pc = "returned" /\ lam_result.calls # <<>>
            /\ lam_outcome.kind = "return"
            /\ \A i \in DOMAIN lam_outcome.messages : lam_outcome.messages[i].content # NoVal)
         => lam_result.reply = ExpectedReply(lam_outcome.messages)
    /\ \A u \in Units :
         (Finished(units[u]) /\ units[u].run_ok)
            => /\ Called(units[u], "say")
               /\ units[u].said.text = ExpectedReply(units[u].agent_run)

\* C10: a body whose type is neither 'url_verification' nor 'event_callback'
\* (or is missing) is answered with statusCode 200 and status 'success', and
\* has no side effect: the agent is not invoked, even if the body carries an
\* event with text.
C10_UnknownTypeIsGenericOk ==
    (GatewayReturned /\ LamBody.type \notin {"url_verification", "event_callback"})
       => /\ lam_result.response = OkSuccess
          /\ lam_result.calls = <<>>
          /\ lam_result.reply = NoVal
          /\ lam_outcome = NoOutcome

C10_Witness ==
    /\ GatewayReturned
    /\ lam_event.body.form = "object"
    /\ LamBody.type = "app_rate_limited"
    /\ LamBody.event.text = "hello"
    /\ LamBody.event.bot_id = NoVal
    /\ lam_result.response = OkSuccess

C12_HandlerStatusCodes ==
    (mode = "lambda" /\ lam_pc = "returned")
       => /\ lam_result.response.statusCode \in {200, 400, 500}
          /\ (lam_event.httpMethod # NoVal /\ json_loads(lam_event.body).raised)
               => /\ lam_result.response.statusCode = 400
                  /\ lam_result.calls = <<>>
          /\ (lam_event.httpMethod # NoVal /\ ~json_loads(lam_event.body).raised)
               => lam_result.response.statusCode = 200
          /\ lam_result.response.statusCode = 500
               => lam_result.response.body = JsonBody("error", "Internal server error")

\* The commands of each deployment, in their order.
FullOrder ==
    <<"cdk deploy", "aws cloudformation describe-stacks", "aws ecr get-login-password",
      "docker login", "docker build", "docker tag image_tag", "docker tag latest",
      "docker push image_tag", "docker push latest",
      "aws lambda update-function-code", "aws lambda wait function-updated">>
CodeOnlyOrder == SubSeq(FullOrder, 2, Len(FullOrder))

\* Command cmd is in the log before position i, with return code 0.
Succeeded(cmd, i) ==
    \E j \in 1..(i - 1) : deploy.log[j] = [cmd |-> cmd, rc |-> 0]

\* C16: the commands of full_deploy and code_only_deploy run in one fixed
\* order; update-function-code runs only after the build, both tags and both
\* pushes succeeded, the wait only after the update succeeded, cdk deploy
\* runs first in a full deployment and never in a code-only one; after a
\* command (docker login included) returns non-zero the process exits with
\* status 1 and no later command runs.
C16_FixedOrderFirstFailureExits ==
    (mode = "deploy") =>
      LET log == deploy.log
          order == IF deploy.code_only THEN CodeOnlyOrder ELSE FullOrder
      IN  /\ Len(log) <= Len(order)
          /\ \A i \in 1..Len(log) :
               /\ log[i].cmd = order[i]
               /\ log[i].cmd = "aws lambda update-function-code"
                    => \A c \in {"docker build", "docker tag image_tag",
                                 "docker tag latest", "docker push image_tag",
                                 "docker push latest"} : Succeeded(c, i)
               /\ log[i].cmd = "aws lambda wait function-updated"
                    => Succeeded("aws lambda update-function-code", i)
               /\ log[i].cmd = "aws cloudformation describe-stacks"
                    => (~deploy.code_only <=> Succeeded("cdk deploy", i))
               /\ deploy.code_only => log[i].cmd # "cdk deploy"
               /\ log[i].rc # 0
                    => /\ i = Len(log)
                       /\ deploy.state = "exited"
                       /\ deploy.code = 1

C16_Witness ==
    /\ mode = "deploy"
    /\ ~deploy.code_only
    /\ Len(deploy.log) = 4
    /\ deploy.log[4] = [cmd |-> "docker login", rc |-> 2]
    /\ deploy.state = "exited"
    /\ deploy.code = 1

\* A finished lookup of thread c whose store call was answered.
Fetched(c) == sm_callers[c].pc = "returned" /\ sm_callers[c].reply # NoReply

\* The store call of a finished lookup failed, or its SecretString does not
\* parse.
FailedReply(reply) ==
    \/ reply.kind \in {"ClientError", "Exception"}
    \/ reply.kind = "SecretString" /\ reply.secret.form \in {"not json", "array"}

\* C13: when threads race on get_secret_value for one not-yet-cached key,
\* every write to the cache for that key stores the same value, every caller
\* that fetched a value gets the value the cache holds, whatever the
\* interleaving, and only a lookup that found the key uncached writes.
C13_RaceOnFirstPopulateHarmless ==
    /\ [](\A c \in Callers :
            (Fetched(c) /\ sm_callers[c].cache /\ Truthy(sm_callers[c].result))
               => /\ sm_callers[c].result = sm_cache[sm_callers[c].key]
                  /\ sm_callers[c].result = sm_returned[sm_callers[c].key]
                  /\ sm_callers[c].wrote => ~sm_callers[c].later)
    /\ [][\A k \in Keys : sm_cache[k] # NoVal => sm_cache'[k] = sm_cache[k]]_vars

\* C14: after a cache-enabled get_secret_value(k) has returned a non-empty
\* value v, every later cache-enabled get_secret_value(k) returns v and makes
\* no store call.
C14_FetchedSecretIsStable ==
    \A c \in Callers :
       (sm_callers[c].pc = "returned" /\ sm_callers[c].cache /\ sm_callers[c].later)
          => /\ sm_callers[c].result = sm_returned[sm_callers[c].key]
             /\ sm_callers[c].calls = 0

\* C15: a lookup whose store call raises (any ClientError code, any other
\* exception) or whose SecretString is no valid JSON object returns None
\* without raising, has made exactly one store call and has not written the
\* cache; a named getter whose ARN variable is unset returns None without a
\* store call.
C15_FailedLookupIsNoneOnce ==
    /\ [](\A c \in Callers :
            /\ (Fetched(c) /\ FailedReply(sm_callers[c].reply))
                 => /\ ~sm_callers[c].raised
                    /\ sm_callers[c].result = NoVal
                    /\ sm_callers[c].calls = 1
                    /\ ~sm_callers[c].wrote
            /\ (sm_callers[c].pc = "returned" /\ sm_callers[c].via \in Getters
                   /\ ~Truthy(sm_callers[c].key))
                 => /\ ~sm_callers[c].raised
                    /\ sm_callers[c].result = NoVal
                    /\ sm_callers[c].calls = 0
                    /\ sm_callers[c].reply = NoReply)
    /\ [][\A c \in Callers :
            (sm_callers'[c].pc = "returned" /\ sm_callers[c].pc # "returned"
                /\ (FailedReply(sm_callers'[c].reply)
                      \/ sm_callers'[c].key \notin Keys))
               => sm_cache' = sm_cache]_vars

C15_Witness ==
    /\ \E c \in Callers :
          /\ Fetched(c)
          /\ sm_callers[c].reply.kind = "ClientError"
          /\ sm_callers[c].cache
          /\ sm_callers[c].result = NoVal
    /\ \E c \in Callers :
          /\ sm_callers[c].pc = "fetch"

\* C17: each cache entry is a non-empty value the store returned for that
\* key to a cache-enabled lookup; lookups that fail, that find a missing or
\* empty 'value' or that run with cache=False leave the cache unchanged, and
\* a cache=False lookup makes its store call even when the key is cached.
C17_CacheHoldsFetchedValuesOnly ==
    /\ [](/\ \A k \in Keys : sm_cache[k] \in SecretValues \cup {NoVal}
          /\ \A c \in Callers :
               /\ (Fetched(c) /\ (FailedReply(sm_callers[c].reply)
                                     \/ ~Truthy(sm_callers[c].result)
                                     \/ ~sm_callers[c].cache))
                    => ~sm_callers[c].wrote
               /\ (sm_callers[c].pc = "returned" /\ ~sm_callers[c].cache
                      /\ sm_callers[c].via = "get_secret_value")
                    => sm_callers[c].calls = 1)
    /\ [][\A k \in Keys :
            sm_cache'[k] # sm_cache[k]
               => \E c \in Callers :
                     /\ sm_callers[c].pc = "fetch"
                     /\ sm_callers[c].key = k
                     /\ sm_callers[c].cache
                     /\ sm_callers'[c].pc = "returned"
                     /\ sm_callers'[c].wrote
                     /\ sm_callers'[c].reply.kind = "SecretString"
                     /\ sm_callers'[c].reply.secret.form = "value"
                     /\ sm_callers'[c].reply.secret.value = sm_cache'[k]
                     /\ sm_cache'[k] # ""]_vars

C17_Witness ==
    \E c \in Callers :
       /\ Fetched(c)
       /\ ~sm_callers[c].cache
       /\ sm_cache[sm_callers[c].key] = "s1"
       /\ sm_callers[c].reply.kind = "SecretString"
       /\ sm_callers[c].result = ""
       /\ sm_callers[c].calls = 1

====
